---- MODULE Spec2Model ----
(***************************************************************************)
(* Everglades Escape: the state progression engine (GameState,            *)
(* PartyMember, Location) together with the controller functions          *)
(* check_travel_hazards and execute_action of main.py.                     *)
(*                                                                         *)
(* A Python exception that leaves a handler is modelled by the flag       *)
(* `raised`: the handler's effects up to the raise are kept, nothing in   *)
(* the program catches it, and no further operation runs afterwards.      *)
(***************************************************************************)
EXTENDS Integers, Sequences, FiniteSets, TLC

VARIABLES current_day, time_remaining, resources, party_members, active_events,
          current_location, game_over, win_condition_met, loss_reason,
          message_log, raised, phase, initial_time_limit,
          initial_canoe_health, over_calls, lastCall, prev,
          logged, returned, calls, hungers

vars == <<current_day, time_remaining, resources, party_members, active_events,
          current_location, game_over, win_condition_met, loss_reason,
          message_log, raised, phase, initial_time_limit,
          initial_canoe_health, over_calls, lastCall, prev,
          logged, returned, calls, hungers>>

----------------------------------------------------------------------------
(* Bounds of the model *)

\* largest initial_time_limit passed to GameState(...)
MaxTime == 2
\* largest party handed to setup_game
MaxParty == 2
\* random.randint(lo, hi) is sampled at lo, hi and every RollStep-th value
RollStep == 5
\* calls made on a GameState whose game is already over
MaxAfterOver == 1
\* log_message and get_and_clear_messages calls made in a row
MaxLogCalls == 5
\* PartyMember methods called in a row on one member
MaxMemberCalls == 4
\* calls made on one game with events: events triggered, actions executed
MaxEventCalls == 2

\* initial_food / initial_canoe_health passed to GameState(...)
InitialFoods == {1}
InitialCanoeHealths == {0, 10}
\* initial_health / initial_hunger passed to PartyMember(...)
InitialHealths == {0, 12}
InitialHungers == {10}

----------------------------------------------------------------------------
(* Values *)

None == "None"
NoReason == <<>>
NoDetails == <<>>

Max(a, b) == IF a >= b THEN a ELSE b
Min(a, b) == IF a <= b THEN a ELSE b

Rolls(lo, hi) == {x \in lo..hi : x = hi \/ (x - lo) % RollStep = 0}

----------------------------------------------------------------------------
(* main.py: constants and the location table *)

HAZARD_PROBABILITY ==
    ("submerged logs" :> 25) @@ ("alligator" :> 15) @@
    ("snakes" :> 20) @@ ("difficult terrain" :> 10)

HAZARD_CANOE_DAMAGE == ("submerged logs" :> <<5, 15>>)

HAZARD_PERSON_DAMAGE == ("alligator" :> <<15, 30>>) @@ ("snakes" :> <<10, 20>>)

Locations ==
    ("start_hammock" :>
        [name |-> "Shaded Hammock",
         connections |-> (<<"paddle", "east">> :> "murky_slough") @@
                         (<<"trek", "south">> :> "shallow_marsh"),
         hazards |-> <<"snakes">>,
         is_destination |-> FALSE]) @@
    ("murky_slough" :>
        [name |-> "Murky Slough",
         connections |-> (<<"paddle", "west">> :> "start_hammock") @@
                         (<<"paddle", "north">> :> "river_fork"),
         hazards |-> <<"submerged logs", "alligator">>,
         is_destination |-> FALSE]) @@
    ("shallow_marsh" :>
        [name |-> "Shallow Marsh",
         connections |-> (<<"trek", "north">> :> "start_hammock"),
         hazards |-> <<"difficult terrain", "snakes">>,
         is_destination |-> FALSE]) @@
    ("river_fork" :>
        [name |-> "River Fork",
         connections |-> (<<"paddle", "south">> :> "murky_slough") @@
                         (<<"paddle", "downstream">> :> "coastal_mound"),
         hazards |-> <<"submerged logs", "alligator">>,
         is_destination |-> FALSE]) @@
    ("coastal_mound" :>
        [name |-> "Coastal Mound (Safe Haven)",
         connections |-> (<<"paddle", "upstream">> :> "river_fork"),
         hazards |-> <<>>,
         is_destination |-> TRUE])

LocationIds == DOMAIN Locations

Names == <<"Chayton", "Api", "Nokomis">>

----------------------------------------------------------------------------
(* world.py: Location queries *)

get_destination_id(loc, travel_action) ==
    IF travel_action \in DOMAIN loc.connections
    THEN loc.connections[travel_action]
    ELSE None

----------------------------------------------------------------------------
(* character.py: PartyMember.  Each operation yields the member after the *)
(* call and the messages it hands to game_state.log_message.              *)

PartyMember(name, initial_health, initial_hunger) ==
    [name |-> name, max_health |-> 100, max_hunger |-> 100,
     health |-> initial_health, hunger |-> initial_hunger,
     status_effects |-> {}]

is_alive(m) == m.health > 0

\* add_status_effect that logs the tag whether or not it is new
add_status_effect_relogs(m, effect) ==
    IF ~is_alive(m) /\ effect # "perished"
    THEN [m |-> m, log |-> <<>>]
    ELSE [m |-> [m EXCEPT !.status_effects = @ \cup {effect}],
          log |-> << <<"gains status", m.name, effect>> >>]

add_status_effect(m, effect) ==
    IF ~is_alive(m) /\ effect # "perished"
    THEN [m |-> m, log |-> <<>>]
    ELSE IF effect \notin m.status_effects
         THEN [m |-> [m EXCEPT !.status_effects = @ \cup {effect}],
               log |-> << <<"gains status", m.name, effect>> >>]
         ELSE [m |-> m, log |-> <<>>]

remove_status_effect(m, effect) ==
    IF effect \in m.status_effects
    THEN [m |-> [m EXCEPT !.status_effects = @ \ {effect}],
          log |-> << <<"loses status", m.name, effect>> >>]
    ELSE [m |-> m, log |-> <<>>]

has_status_effect(m, effect) == effect \in m.status_effects

\* take_damage without the test of the amount's sign
take_damage_any_amount(m, amount) ==
    IF ~is_alive(m)
    THEN [m |-> m, log |-> <<>>]
    ELSE LET m1 == [m EXCEPT !.health = Max(0, m.health - amount)]
             log1 == << <<"takes damage", m.name, amount, m1.health>> >>
         IN IF ~is_alive(m1) /\ "perished" \notin m1.status_effects
            THEN LET r == add_status_effect(m1, "perished")
                 IN [m |-> r.m,
                     log |-> log1 \o << <<"has perished", m.name>> >> \o r.log]
            ELSE [m |-> m1, log |-> log1]

take_damage(m, amount) ==
    IF amount <= 0 \/ ~is_alive(m)
    THEN [m |-> m, log |-> <<>>]
    ELSE LET m1 == [m EXCEPT !.health = Max(0, m.health - amount)]
             log1 == << <<"takes damage", m.name, amount, m1.health>> >>
         IN IF ~is_alive(m1) /\ "perished" \notin m1.status_effects
            THEN LET r == add_status_effect(m1, "perished")
                 IN [m |-> r.m,
                     log |-> log1 \o << <<"has perished", m.name>> >> \o r.log]
            ELSE [m |-> m1, log |-> log1]

\* heal without the test that the member is alive
heal_revives(m, amount) ==
    IF amount <= 0
    THEN [m |-> m, log |-> <<>>]
    ELSE LET m1 == [m EXCEPT !.health = Min(m.max_health, m.health + amount)]
         IN [m |-> m1,
             log |-> IF m1.health > m.health
                     THEN << <<"heals", m.name, amount, m1.health>> >>
                     ELSE <<>>]

\* heal without the clamp at max_health
heal_unclamped(m, amount) ==
    IF amount <= 0 \/ ~is_alive(m)
    THEN [m |-> m, log |-> <<>>]
    ELSE LET m1 == [m EXCEPT !.health = m.health + amount]
         IN [m |-> m1, log |-> << <<"heals", m.name, amount, m1.health>> >>]

heal(m, amount) ==
    IF amount <= 0 \/ ~is_alive(m)
    THEN [m |-> m, log |-> <<>>]
    ELSE LET m1 == [m EXCEPT !.health = Min(m.max_health, m.health + amount)]
         IN [m |-> m1,
             log |-> IF m1.health > m.health
                     THEN << <<"heals", m.name, amount, m1.health>> >>
                     ELSE <<>>]

\* change_hunger that drops "starving" as soon as hunger is above 0
change_hunger_no_hysteresis(m, amount) ==
    IF ~is_alive(m)
    THEN [m |-> m, log |-> <<>>]
    ELSE LET initial_is_starving == "starving" \in m.status_effects
             m1 == [m EXCEPT !.hunger = Max(0, Min(m.max_hunger, m.hunger + amount))]
         IN IF m1.hunger <= 0 /\ ~initial_is_starving
            THEN LET r == add_status_effect(m1, "starving")
                 IN [m |-> r.m, log |-> r.log \o << <<"is starving", m.name>> >>]
            ELSE IF m1.hunger > 0 /\ initial_is_starving
                 THEN LET r == remove_status_effect(m1, "starving")
                      IN [m |-> r.m,
                          log |-> r.log \o << <<"no longer starving", m.name>> >>]
                 ELSE [m |-> m1, log |-> <<>>]

change_hunger(m, amount) ==
    IF ~is_alive(m)
    THEN [m |-> m, log |-> <<>>]
    ELSE LET initial_is_starving == "starving" \in m.status_effects
             m1 == [m EXCEPT !.hunger = Max(0, Min(m.max_hunger, m.hunger + amount))]
         IN IF m1.hunger <= 0 /\ ~initial_is_starving
            THEN LET r == add_status_effect(m1, "starving")
                 IN [m |-> r.m, log |-> r.log \o << <<"is starving", m.name>> >>]
            ELSE IF m1.hunger > 10 /\ initial_is_starving
                 THEN LET r == remove_status_effect(m1, "starving")
                      IN [m |-> r.m,
                          log |-> r.log \o << <<"no longer starving", m.name>> >>]
                 ELSE [m |-> m1, log |-> <<>>]

\* apply_daily_effects charging only the first tag that carries a cost
apply_daily_effects_first_tag_only(m) ==
    IF ~is_alive(m)
    THEN [m |-> m, log |-> <<>>]
    ELSE LET r0 == change_hunger(m, -10)
             r1 == IF has_status_effect(r0.m, "starving") THEN take_damage(r0.m, 12)
                   ELSE IF has_status_effect(r0.m, "sick") THEN take_damage(r0.m, 3)
                   ELSE IF has_status_effect(r0.m, "snakebitten") THEN take_damage(r0.m, 8)
                   ELSE [m |-> r0.m, log |-> <<>>]
         IN [m |-> r1.m, log |-> r0.log \o r1.log]

\* apply_daily_effects with the tags read before the hunger decrease, so that
\* a member who starts starving today is first damaged tomorrow
apply_daily_effects_tags_read_first(m) ==
    IF ~is_alive(m)
    THEN [m |-> m, log |-> <<>>]
    ELSE LET r0 == change_hunger(m, -10)
             r1 == IF has_status_effect(m, "starving")
                   THEN take_damage(r0.m, 12) ELSE [m |-> r0.m, log |-> <<>>]
             r2 == IF has_status_effect(r1.m, "sick")
                   THEN take_damage(r1.m, 3) ELSE [m |-> r1.m, log |-> <<>>]
             r3 == IF has_status_effect(r2.m, "snakebitten")
                   THEN take_damage(r2.m, 8) ELSE [m |-> r2.m, log |-> <<>>]
         IN [m |-> r3.m, log |-> r0.log \o r1.log \o r2.log \o r3.log]

\* apply_daily_effects with the earlier starving damage of 5
apply_daily_effects_starving_5(m) ==
    IF ~is_alive(m)
    THEN [m |-> m, log |-> <<>>]
    ELSE LET r0 == change_hunger(m, -10)
             r1 == IF has_status_effect(r0.m, "starving")
                   THEN take_damage(r0.m, 5) ELSE [m |-> r0.m, log |-> <<>>]
             r2 == IF has_status_effect(r1.m, "sick")
                   THEN take_damage(r1.m, 3) ELSE [m |-> r1.m, log |-> <<>>]
             r3 == IF has_status_effect(r2.m, "snakebitten")
                   THEN take_damage(r2.m, 8) ELSE [m |-> r2.m, log |-> <<>>]
         IN [m |-> r3.m, log |-> r0.log \o r1.log \o r2.log \o r3.log]

\* the body of apply_daily_effects(self, game_state)
apply_daily_effects(m) ==
    IF ~is_alive(m)
    THEN [m |-> m, log |-> <<>>]
    ELSE LET r0 == change_hunger(m, -10)
             r1 == IF has_status_effect(r0.m, "starving")
                   THEN take_damage(r0.m, 12) ELSE [m |-> r0.m, log |-> <<>>]
             r2 == IF has_status_effect(r1.m, "sick")
                   THEN take_damage(r1.m, 3) ELSE [m |-> r1.m, log |-> <<>>]
             r3 == IF has_status_effect(r2.m, "snakebitten")
                   THEN take_damage(r2.m, 8) ELSE [m |-> r2.m, log |-> <<>>]
         IN [m |-> r3.m, log |-> r0.log \o r1.log \o r2.log \o r3.log]

----------------------------------------------------------------------------
(* game_state.py: GameState.  g is the record of the object's fields.     *)

GS == [current_day |-> current_day, time_remaining |-> time_remaining,
       resources |-> resources, party_members |-> party_members,
       current_location |-> current_location, game_over |-> game_over,
       win_condition_met |-> win_condition_met, loss_reason |-> loss_reason,
       message_log |-> message_log, raised |-> raised,
       active_events |-> active_events]

log_message(g, message) == [g EXCEPT !.message_log = Append(@, message)]

LogAll(g, messages) == [g EXCEPT !.message_log = @ \o messages]

AnyAlive(g) == \E i \in DOMAIN g.party_members : is_alive(g.party_members[i])

\* set_game_over without its "if not self.game_over" guard
set_game_over_overwrite(g, win, reason) ==
    LogAll([g EXCEPT !.game_over = TRUE,
                     !.win_condition_met = win,
                     !.loss_reason = reason],
           << <<"--- GAME OVER ---">>, reason >>)

set_game_over(g, win, reason) ==
    IF ~g.game_over
    THEN LogAll([g EXCEPT !.game_over = TRUE,
                          !.win_condition_met = win,
                          !.loss_reason = reason],
                << <<"--- GAME OVER ---">>, reason >>)
    ELSE g

TimeReason == <<"ran out of time">>
PerishedReason == <<"party perished">>
SetupErrorReason == <<"setup error">>
ReachedReason(name) == <<"reached", name>>

IsDestination(location_id) ==
    location_id # None /\ Locations[location_id].is_destination

\* check_game_over_conditions with the time check moved before the
\* destination check
check_game_over_conditions_time_first(g) ==
    IF g.game_over THEN g
    ELSE IF g.time_remaining < 0
    THEN set_game_over(g, FALSE, TimeReason)
    ELSE IF IsDestination(g.current_location)
    THEN set_game_over(g, TRUE, ReachedReason(Locations[g.current_location].name))
    ELSE IF ~AnyAlive(g)
    THEN set_game_over(g, FALSE, PerishedReason)
    ELSE IF g.resources.canoe_health <= 0
    THEN log_message(g, <<"Warning: The canoe has been destroyed!">>)
    ELSE g

\* check_game_over_conditions with the commented-out canoe loss enabled
check_game_over_conditions_canoe_loss(g) ==
    IF g.game_over THEN g
    ELSE IF IsDestination(g.current_location)
    THEN set_game_over(g, TRUE, ReachedReason(Locations[g.current_location].name))
    ELSE IF g.time_remaining < 0
    THEN set_game_over(g, FALSE, TimeReason)
    ELSE IF ~AnyAlive(g)
    THEN set_game_over(g, FALSE, PerishedReason)
    ELSE IF g.resources.canoe_health <= 0
    THEN set_game_over(g, FALSE, <<"canoe destroyed">>)
    ELSE g

\* check_game_over_conditions that records the death of the party as a win
check_game_over_conditions_perished_wins(g) ==
    IF g.game_over THEN g
    ELSE IF IsDestination(g.current_location)
    THEN set_game_over(g, TRUE, ReachedReason(Locations[g.current_location].name))
    ELSE IF g.time_remaining < 0
    THEN set_game_over(g, FALSE, TimeReason)
    ELSE IF ~AnyAlive(g)
    THEN set_game_over(g, TRUE, PerishedReason)
    ELSE IF g.resources.canoe_health <= 0
    THEN log_message(g, <<"Warning: The canoe has been destroyed!">>)
    ELSE g

check_game_over_conditions(g) ==
    IF g.game_over THEN g
    ELSE IF IsDestination(g.current_location)
    THEN set_game_over(g, TRUE, ReachedReason(Locations[g.current_location].name))
    ELSE IF g.time_remaining < 0
    THEN set_game_over(g, FALSE, TimeReason)
    ELSE IF ~AnyAlive(g)
    THEN set_game_over(g, FALSE, PerishedReason)
    ELSE IF g.resources.canoe_health <= 0
    THEN log_message(g, <<"Warning: The canoe has been destroyed!">>)
    ELSE g

\* member.apply_daily_effects() is called without the game_state argument
\* that PartyMember.apply_daily_effects requires: the call raises TypeError
\* before the method body runs, for the first living member of the party.
apply_daily_party_effects(g) ==
    LET g1 == log_message(g, <<"--- Daily Effects ---", g.current_day>>)
    IN IF g1.party_members = <<>> THEN g1
       ELSE IF AnyAlive(g1)
            THEN [g1 EXCEPT !.raised = TRUE]
            ELSE log_message(g1, <<"--------------------------------">>)

\* advance_day without its "if self.game_over" early return
advance_day_no_guard(g) ==
    LET g1 == log_message([g EXCEPT !.current_day = @ + 1,
                                    !.time_remaining = @ - 1],
                          <<"=== Day ===", g.current_day + 1,
                            g.time_remaining - 1>>)
        g2 == apply_daily_party_effects(g1)
    IN IF g2.raised THEN g2 ELSE check_game_over_conditions(g2)

\* advance_day that counts the day but leaves time_remaining alone
advance_day_time_kept(g) ==
    IF g.game_over
    THEN log_message(g, <<"Cannot advance day: Game is already over.">>)
    ELSE LET g1 == log_message([g EXCEPT !.current_day = @ + 1],
                               <<"=== Day ===", g.current_day + 1, g.time_remaining>>)
             g2 == apply_daily_party_effects(g1)
         IN IF g2.raised THEN g2 ELSE check_game_over_conditions(g2)

advance_day(g) ==
    IF g.game_over
    THEN log_message(g, <<"Cannot advance day: Game is already over.">>)
    ELSE LET g1 == log_message([g EXCEPT !.current_day = @ + 1,
                                         !.time_remaining = @ - 1],
                               <<"=== Day ===", g.current_day + 1,
                                 g.time_remaining - 1>>)
             g2 == apply_daily_party_effects(g1)
         IN IF g2.raised THEN g2 ELSE check_game_over_conditions(g2)

\* setup_game that logs an unknown start location and leaves the game active
setup_game_error_ignored(g, party, start_location_id) ==
    LET g1 == [g EXCEPT !.party_members = party]
    IN IF start_location_id \in LocationIds
       THEN log_message([g1 EXCEPT !.current_location = start_location_id],
                        <<"Game started.", Locations[start_location_id].name>>)
       ELSE log_message(g1, <<"Error: Start location ID not found", start_location_id>>)

\* setup_game(party, locations, events, start_location_id); the location
\* table is the one load_locations() builds
setup_game(g, party, start_location_id) ==
    LET g1 == [g EXCEPT !.party_members = party]
    IN IF start_location_id \in LocationIds
       THEN log_message([g1 EXCEPT !.current_location = start_location_id],
                        <<"Game started.", Locations[start_location_id].name>>)
       ELSE [log_message(g1, <<"Error: Start location ID not found", start_location_id>>)
                EXCEPT !.game_over = TRUE, !.loss_reason = SetupErrorReason]

\* get_and_clear_messages that returns the messages and keeps them
get_and_clear_messages_keeps_log(g) == g

get_and_clear_messages(g) == [g EXCEPT !.message_log = <<>>]

\* the list get_and_clear_messages returns
drained_messages(g) == g.message_log

----------------------------------------------------------------------------
(* main.py: controller functions.  Each yields the set of states the      *)
(* random draws can produce.                                               *)

LivingMembers(g) == {i \in DOMAIN g.party_members : is_alive(g.party_members[i])}

\* HazardFires with the canoe damage subtracted without the floor at 0
HazardFires_canoe_unclamped(g, hazard, living_members) ==
    LET g1 == log_message(g, <<"Hazard encountered", hazard>>)
    IN IF hazard \in DOMAIN HAZARD_CANOE_DAMAGE
       THEN { LET current_canoe_health == g1.resources.canoe_health
                  new_canoe_health == current_canoe_health - damage
                  g2 == log_message([g1 EXCEPT !.resources.canoe_health = new_canoe_health],
                                    <<"The canoe strikes", hazard, damage, new_canoe_health>>)
              IN IF current_canoe_health > 0
                 THEN IF new_canoe_health <= 0
                      THEN log_message(g2, <<"The canoe is critically damaged and unusable!">>)
                      ELSE g2
                 ELSE g1
              : damage \in Rolls(HAZARD_CANOE_DAMAGE[hazard][1], HAZARD_CANOE_DAMAGE[hazard][2]) }
       ELSE IF hazard \in DOMAIN HAZARD_PERSON_DAMAGE
       THEN { LET g2 == log_message(g1, <<"attacks", hazard>>)
                  r1 == take_damage(g2.party_members[t[2]], t[1])
                  r2 == add_status_effect(r1.m, "injured")
              IN LogAll([g2 EXCEPT !.party_members[t[2]] = r2.m], r1.log \o r2.log)
              : t \in Rolls(HAZARD_PERSON_DAMAGE[hazard][1], HAZARD_PERSON_DAMAGE[hazard][2])
                      \X living_members }
       ELSE IF hazard = "difficult terrain"
       THEN { log_message(g1, <<"Travel through difficult terrain was strenuous.">>) }
       ELSE { g1 }

\* the effect of one hazard whose roll succeeded
HazardFires(g, hazard, living_members) ==
    LET g1 == log_message(g, <<"Hazard encountered", hazard>>)
    IN IF hazard \in DOMAIN HAZARD_CANOE_DAMAGE
       THEN { LET current_canoe_health == g1.resources.canoe_health
                  new_canoe_health == Max(0, current_canoe_health - damage)
                  g2 == log_message([g1 EXCEPT !.resources.canoe_health = new_canoe_health],
                                    <<"The canoe strikes", hazard, damage, new_canoe_health>>)
              IN IF current_canoe_health > 0
                 THEN IF new_canoe_health <= 0
                      THEN log_message(g2, <<"The canoe is critically damaged and unusable!">>)
                      ELSE g2
                 ELSE g1
              : damage \in Rolls(HAZARD_CANOE_DAMAGE[hazard][1], HAZARD_CANOE_DAMAGE[hazard][2]) }
       ELSE IF hazard \in DOMAIN HAZARD_PERSON_DAMAGE
       THEN { LET g2 == log_message(g1, <<"attacks", hazard>>)
                  r1 == take_damage(g2.party_members[t[2]], t[1])
                  r2 == add_status_effect(r1.m, "injured")
              IN LogAll([g2 EXCEPT !.party_members[t[2]] = r2.m], r1.log \o r2.log)
              : t \in Rolls(HAZARD_PERSON_DAMAGE[hazard][1], HAZARD_PERSON_DAMAGE[hazard][2])
                      \X living_members }
       ELSE IF hazard = "difficult terrain"
       THEN { log_message(g1, <<"Travel through difficult terrain was strenuous.">>) }
       ELSE { g1 }

\* one iteration of the loop over hazards: random.random() < probability
HazardRoll(g, hazard, living_members) ==
    LET probability == IF hazard \in DOMAIN HAZARD_PROBABILITY
                       THEN HAZARD_PROBABILITY[hazard] ELSE 0
    IN (IF probability < 100 THEN {g} ELSE {}) \cup
       (IF probability > 0 THEN HazardFires(g, hazard, living_members) ELSE {})

RECURSIVE ResolveHazards(_, _, _)
ResolveHazards(gset, hazards, living_members) ==
    IF hazards = <<>> THEN gset
    ELSE ResolveHazards(UNION {HazardRoll(g, Head(hazards), living_members) : g \in gset},
                        Tail(hazards), living_members)

hazards_of(location_id) == Locations[location_id].hazards

\* check_travel_hazards with the target of a person-damage hazard drawn from
\* the whole party instead of the living members
check_travel_hazards_any_target(g) ==
    IF g.current_location = None THEN {g}
    ELSE IF hazards_of(g.current_location) = <<>> THEN {g}
    ELSE IF LivingMembers(g) = {} THEN {g}
    ELSE ResolveHazards({g}, hazards_of(g.current_location), DOMAIN g.party_members)

check_travel_hazards(g) ==
    IF g.current_location = None THEN {g}
    ELSE IF hazards_of(g.current_location) = <<>> THEN {g}
    ELSE IF LivingMembers(g) = {} THEN {g}
    ELSE ResolveHazards({g}, hazards_of(g.current_location), LivingMembers(g))

\* "paddle" in details.lower(); a label is the tuple of its words
requires_canoe(details) == \E i \in DOMAIN details : details[i] = "paddle"

\* the travel branch after hazards with the aborted attempt costing the day
travel_after_hazards_abort_costs_day(g, details, destination_id) ==
    IF requires_canoe(details) /\ g.resources.canoe_health <= 0
    THEN [g |-> log_message(g, <<"Travel aborted! The canoe is too damaged.">>),
          action_advances_day |-> TRUE]
    ELSE [g |-> log_message([g EXCEPT !.current_location = destination_id],
                            <<"Party arrives at", Locations[destination_id].name>>),
          action_advances_day |-> TRUE]

\* travel_after_hazards that moves the party back to the start location
\* whatever the chosen connection
travel_after_hazards_to_start(g, details, destination_id) ==
    IF requires_canoe(details) /\ g.resources.canoe_health <= 0
    THEN [g |-> log_message(g, <<"Travel aborted! The canoe is too damaged.">>),
          action_advances_day |-> FALSE]
    ELSE [g |-> log_message([g EXCEPT !.current_location = "start_hammock"],
                            <<"Party arrives at", Locations["start_hammock"].name>>),
          action_advances_day |-> TRUE]

\* the travel branch after hazards: the vehicle check, then the move
travel_after_hazards(g, details, destination_id) ==
    IF requires_canoe(details) /\ g.resources.canoe_health <= 0
    THEN [g |-> log_message(g, <<"Travel aborted! The canoe is too damaged.">>),
          action_advances_day |-> FALSE]
    ELSE [g |-> log_message([g EXCEPT !.current_location = destination_id],
                            <<"Party arrives at", Locations[destination_id].name>>),
          action_advances_day |-> TRUE]

\* travel with the hazards of the location resolved before the label is
\* looked up among its connections
travel_hazards_first(g, details) ==
    IF details # NoDetails /\ g.current_location # None
    THEN LET destination_id == get_destination_id(Locations[g.current_location], details)
         IN { IF destination_id # None /\ destination_id \in LocationIds
              THEN travel_after_hazards(g2, details, destination_id)
              ELSE [g |-> log_message(g2, <<"Cannot travel via", details>>),
                    action_advances_day |-> FALSE]
              : g2 \in check_travel_hazards(
                         log_message(g, <<"Party begins to travel via", details>>)) }
    ELSE { [g |-> log_message(g, <<"Invalid travel details.">>),
            action_advances_day |-> FALSE] }

\* travel with the vehicle check and the move decided before the hazards of
\* the departure location are resolved
travel_check_first(g, details) ==
    IF details # NoDetails /\ g.current_location # None
    THEN LET destination_id == get_destination_id(Locations[g.current_location], details)
         IN IF destination_id # None /\ destination_id \in LocationIds
            THEN LET r == travel_after_hazards(
                              log_message(g, <<"Party begins to travel via", details>>),
                              details, destination_id)
                 IN { [g |-> [g2 EXCEPT !.current_location = r.g.current_location],
                       action_advances_day |-> r.action_advances_day]
                      : g2 \in check_travel_hazards(
                                 [r.g EXCEPT !.current_location = g.current_location]) }
            ELSE { [g |-> log_message(g, <<"Cannot travel via", details>>),
                    action_advances_day |-> FALSE] }
    ELSE { [g |-> log_message(g, <<"Invalid travel details.">>),
            action_advances_day |-> FALSE] }

travel(g, details) ==
    IF details # NoDetails /\ g.current_location # None
    THEN LET destination_id == get_destination_id(Locations[g.current_location], details)
         IN IF destination_id # None /\ destination_id \in LocationIds
            THEN { travel_after_hazards(g2, details, destination_id) :
                     g2 \in check_travel_hazards(
                              log_message(g, <<"Party begins to travel via", details>>)) }
            ELSE { [g |-> log_message(g, <<"Cannot travel via", details>>),
                    action_advances_day |-> FALSE] }
    ELSE { [g |-> log_message(g, <<"Invalid travel details.">>),
            action_advances_day |-> FALSE] }

\* execute_action with the canoe repair costing the day
action_body_repair_advances(g, action_type, details) ==
    IF action_type = "travel" THEN travel(g, details)
    ELSE IF action_type = "forage"
    THEN { [g |-> log_message([g EXCEPT !.resources.food = @ + food_found],
                              <<"Party forages.", food_found>>),
            action_advances_day |-> TRUE] : food_found \in Rolls(1, 5) }
    ELSE IF action_type = "rest"
    THEN { [g |-> log_message(g, <<"Party rests for the day.">>),
            action_advances_day |-> TRUE] }
    ELSE IF action_type = "repair"
    THEN { [g |-> log_message(g, <<"Canoe repair not yet implemented.">>),
            action_advances_day |-> TRUE] }
    ELSE IF action_type = "status"
    THEN { [g |-> log_message(g, <<"Detailed status check not yet implemented.">>),
            action_advances_day |-> FALSE] }
    ELSE IF action_type # "quit"
    THEN { [g |-> log_message(g, <<"Unknown action type", action_type>>),
            action_advances_day |-> FALSE] }
    ELSE { [g |-> g, action_advances_day |-> FALSE] }

\* execute_action up to the final "advance day" statement
action_body(g, action_type, details) ==
    IF action_type = "travel" THEN travel(g, details)
    ELSE IF action_type = "forage"
    THEN { [g |-> log_message([g EXCEPT !.resources.food = @ + food_found],
                              <<"Party forages.", food_found>>),
            action_advances_day |-> TRUE] : food_found \in Rolls(1, 5) }
    ELSE IF action_type = "rest"
    THEN { [g |-> log_message(g, <<"Party rests for the day.">>),
            action_advances_day |-> TRUE] }
    ELSE IF action_type = "repair"
    THEN { [g |-> log_message(g, <<"Canoe repair not yet implemented.">>),
            action_advances_day |-> FALSE] }
    ELSE IF action_type = "status"
    THEN { [g |-> log_message(g, <<"Detailed status check not yet implemented.">>),
            action_advances_day |-> FALSE] }
    ELSE IF action_type # "quit"
    THEN { [g |-> log_message(g, <<"Unknown action type", action_type>>),
            action_advances_day |-> FALSE] }
    ELSE { [g |-> g, action_advances_day |-> FALSE] }

execute_action(g, action_type, details) ==
    { IF r.action_advances_day /\ ~r.g.game_over THEN advance_day(r.g) ELSE r.g
      : r \in action_body(g, action_type, details) }

----------------------------------------------------------------------------
(* events.py: GameEvent and the example effect functions.  An effect      *)
(* yields the set of outcomes the random draws can produce, each the      *)
(* state after the call and the message returned; the message is the      *)
(* tuple of its sentences.  The effects call the PartyMember methods      *)
(* without a game_state, so nothing is logged.                             *)

\* load_events(): event_id -> the effect function bound to the event
Events ==
    ("storm_01" :> "sudden_storm_effect") @@
    ("find_berries_01" :> "found_berries_effect") @@
    ("snake_bite_01" :> "snake_bite_effect")

EventIds == DOMAIN Events

\* member i takes damage and then is given the tag
Struck(g, i, damage, effect) ==
    [g EXCEPT !.party_members[i] =
        add_status_effect(take_damage(g.party_members[i], damage).m, effect).m]

\* sudden_storm_effect without the clamp of canoe_health at 0
sudden_storm_effect_unclamped(g) ==
    UNION {
      LET current_canoe_health == g.resources.canoe_health
          new_canoe_health == current_canoe_health - canoe_damage
          g1 == [g EXCEPT !.resources.canoe_health = new_canoe_health]
          message == << <<"A sudden thunderstorm hits!">>,
                        <<"The canoe is battered, taking damage",
                          canoe_damage, new_canoe_health>> >>
                     \o (IF new_canoe_health <= 0
                         THEN << <<"The canoe is destroyed!">> >> ELSE <<>>)
      IN { [g |-> g1, message |-> message] }
         \cup { [g |-> Struck(g1, t[1], t[2], "injured"),
                 message |-> Append(message,
                                    <<"is injured", g1.party_members[t[1]].name, t[2]>>)]
                : t \in LivingMembers(g1) \X Rolls(1, 10) }
      : canoe_damage \in Rolls(5, 25) }

sudden_storm_effect(g) ==
    UNION {
      LET current_canoe_health == g.resources.canoe_health
          new_canoe_health == Max(0, current_canoe_health - canoe_damage)
          g1 == [g EXCEPT !.resources.canoe_health = new_canoe_health]
          message == << <<"A sudden thunderstorm hits!">>,
                        <<"The canoe is battered, taking damage",
                          canoe_damage, new_canoe_health>> >>
                     \o (IF new_canoe_health <= 0
                         THEN << <<"The canoe is destroyed!">> >> ELSE <<>>)
      IN { [g |-> g1, message |-> message] }
         \cup { [g |-> Struck(g1, t[1], t[2], "injured"),
                 message |-> Append(message,
                                    <<"is injured", g1.party_members[t[1]].name, t[2]>>)]
                : t \in LivingMembers(g1) \X Rolls(1, 10) }
      : canoe_damage \in Rolls(5, 25) }

found_berries_effect(g) ==
    UNION {
      LET g1 == [g EXCEPT !.resources.food = @ + food_gain]
      IN { [g |-> g1, message |-> << <<"Gained food", food_gain>> >>] }
         \cup (IF g1.party_members = <<>> THEN {}
               ELSE IF LivingMembers(g1) = {}
               THEN { [g |-> [g1 EXCEPT !.raised = TRUE], message |-> None] }
               ELSE { [g |-> [g1 EXCEPT !.party_members[i] =
                                 add_status_effect(g1.party_members[i], "sick").m],
                       message |-> << <<"Gained food", food_gain>>,
                                      <<"feels sick", g1.party_members[i].name>> >>]
                      : i \in LivingMembers(g1) })
      : food_gain \in Rolls(3, 8) }

\* snake_bite_effect giving the tag before the damage is dealt
snake_bite_effect_tag_first(g) ==
    IF LivingMembers(g) = {}
    THEN { [g |-> g, message |-> << <<"no one left to bite">> >>] }
    ELSE { [g |-> [g EXCEPT !.party_members[t[1]] =
                     take_damage(add_status_effect(g.party_members[t[1]],
                                                   "snakebitten").m, t[2]).m],
            message |-> << <<"is bitten", g.party_members[t[1]].name, t[2]>> >>]
           : t \in LivingMembers(g) \X Rolls(10, 25) }

snake_bite_effect(g) ==
    IF LivingMembers(g) = {}
    THEN { [g |-> g, message |-> << <<"no one left to bite">> >>] }
    ELSE { [g |-> Struck(g, t[1], t[2], "snakebitten"),
            message |-> << <<"is bitten", g.party_members[t[1]].name, t[2]>> >>]
           : t \in LivingMembers(g) \X Rolls(10, 25) }

\* self.apply_effect(game_state)
apply_effect(g, event_id) ==
    IF Events[event_id] = "sudden_storm_effect" THEN sudden_storm_effect(g)
    ELSE IF Events[event_id] = "found_berries_effect" THEN found_berries_effect(g)
    ELSE snake_bite_effect(g)

\* GameEvent.trigger: an exception of the effect leaves trigger at once
trigger(g, event_id) ==
    { IF r.g.raised THEN r
      ELSE [g |-> [r.g EXCEPT !.active_events = Append(@, event_id)],
            message |-> r.message]
      : r \in apply_effect(g, event_id) }

----------------------------------------------------------------------------
(* The state machine: GameState(...) is constructed, setup_game is called *)
(* once, and then the controller and the public methods of GameState are  *)
(* called in any order, the presentation layer draining the message log   *)
(* (display_game_state) before each of them.  lastCall names the last     *)
(* call made and prev holds the object's fields as they were when that    *)
(* call started.  logged, returned, calls and hungers are history         *)
(* variables of the smaller machines further down and stay as Init leaves *)
(* them here.                                                              *)

ActionTypes == {"travel", "forage", "rest", "repair", "status", "quit", "dance"}

\* the labels offered at the party's location, a label of another location,
\* a label no location has, and no label
TravelDetails ==
    (IF current_location # None
     THEN DOMAIN Locations[current_location].connections ELSE {})
    \cup {<<"paddle", "upstream">>, <<"swim", "west">>, NoDetails}

StartLocationIds == LocationIds \cup {"nowhere"}

Parties ==
    UNION { { [i \in 1..n |-> PartyMember(Names[i], f[i][1], f[i][2])] :
                f \in [1..n -> InitialHealths \X InitialHungers] } : n \in 0..MaxParty }

\* reasons a caller passes to set_game_over
CallerReasons == {<<"caller's reason">>}

Install(g, call) ==
    /\ current_day' = g.current_day
    /\ time_remaining' = g.time_remaining
    /\ resources' = g.resources
    /\ party_members' = g.party_members
    /\ current_location' = g.current_location
    /\ game_over' = g.game_over
    /\ win_condition_met' = g.win_condition_met
    /\ loss_reason' = g.loss_reason
    /\ message_log' = g.message_log
    /\ raised' = g.raised
    /\ active_events' = g.active_events
    /\ lastCall' = call
    /\ prev' = GS
    /\ UNCHANGED <<initial_time_limit, initial_canoe_health>>

\* a call made on a game that is already over is counted
CountCall == over_calls' = IF game_over THEN over_calls + 1 ELSE over_calls

Init ==
    /\ initial_time_limit \in 0..MaxTime
    /\ initial_canoe_health \in InitialCanoeHealths
    /\ current_day = 1
    /\ time_remaining = initial_time_limit
    /\ party_members = <<>>
    /\ \E initial_food \in InitialFoods :
         resources = [food |-> initial_food, canoe_health |-> initial_canoe_health,
                      wood |-> 0, herbs |-> 0, repair_materials |-> 0]
    /\ current_location = None
    /\ active_events = <<>>
    /\ game_over = FALSE
    /\ win_condition_met = FALSE
    /\ loss_reason = NoReason
    /\ message_log = <<>>
    /\ raised = FALSE
    /\ phase = "constructed"
    /\ over_calls = 0
    /\ lastCall = <<"__init__">>
    /\ prev = GS
    /\ logged = <<>>
    /\ returned = <<>>
    /\ calls = 0
    /\ hungers = <<>>

Ready ==
    /\ phase = "ready" /\ ~raised
    /\ message_log = <<>>
    /\ game_over => over_calls < MaxAfterOver

SetupGame ==
    /\ phase = "constructed"
    /\ \E party \in Parties, start_location_id \in StartLocationIds :
         Install(setup_game(GS, party, start_location_id),
                 <<"setup_game", start_location_id>>)
    /\ phase' = "ready"
    /\ CountCall
    /\ UNCHANGED <<logged, returned, calls, hungers>>

ExecuteAction ==
    /\ Ready
    /\ \E action_type \in ActionTypes :
         \E details \in (IF action_type = "travel" THEN TravelDetails ELSE {NoDetails}) :
           /\ \E g \in execute_action(GS, action_type, details) :
                Install(g, <<"execute_action", action_type, details>>)
    /\ CountCall
    /\ UNCHANGED <<phase, logged, returned, calls, hungers>>

AdvanceDay ==
    /\ Ready
    /\ Install(advance_day(GS), <<"advance_day">>)
    /\ CountCall
    /\ UNCHANGED <<phase, logged, returned, calls, hungers>>

CheckGameOverConditions ==
    /\ Ready
    /\ Install(check_game_over_conditions(GS), <<"check_game_over_conditions">>)
    /\ CountCall
    /\ UNCHANGED <<phase, logged, returned, calls, hungers>>

SetGameOver ==
    /\ Ready
    /\ \E win \in BOOLEAN, reason \in CallerReasons :
         Install(set_game_over(GS, win, reason), <<"set_game_over", win, reason>>)
    /\ CountCall
    /\ UNCHANGED <<phase, logged, returned, calls, hungers>>

GetAndClearMessages ==
    /\ phase = "ready" /\ ~raised
    /\ message_log # <<>>
    /\ Install(get_and_clear_messages(GS), <<"get_and_clear_messages">>)
    /\ UNCHANGED <<phase, over_calls, logged, returned, calls, hungers>>

Next ==
    \/ SetupGame
    \/ ExecuteAction
    \/ AdvanceDay
    \/ CheckGameOverConditions
    \/ SetGameOver
    \/ GetAndClearMessages

Spec == Init /\ [][Next]_vars

TypeOK ==
    /\ current_day \in Nat
    /\ time_remaining \in Int
    /\ game_over \in BOOLEAN
    /\ win_condition_met \in BOOLEAN
    /\ raised \in BOOLEAN

----------------------------------------------------------------------------
(* The message log on its own: after construction log_message and         *)
(* get_and_clear_messages are called in any order.  logged is every       *)
(* message passed to log_message so far, returned the list each           *)
(* get_and_clear_messages call gave back.                                  *)

LogMessages == {<<"first message">>, <<"second message">>}

LogMessageCall ==
    /\ phase = "constructed"
    /\ calls < MaxLogCalls
    /\ \E message \in LogMessages :
         /\ Install(log_message(GS, message), <<"log_message", message>>)
         /\ logged' = Append(logged, message)
    /\ calls' = calls + 1
    /\ UNCHANGED <<returned, phase, over_calls, hungers>>

DrainCall ==
    /\ phase = "constructed"
    /\ calls < MaxLogCalls
    /\ Install(get_and_clear_messages(GS), <<"get_and_clear_messages">>)
    /\ returned' = Append(returned, drained_messages(GS))
    /\ calls' = calls + 1
    /\ UNCHANGED <<logged, phase, over_calls, hungers>>

LogNext == LogMessageCall \/ DrainCall

SpecLog == Init /\ [][LogNext]_vars

----------------------------------------------------------------------------
(* One PartyMember on its own: a living member is constructed and its     *)
(* methods are called in any order with a GameState to log to.            *)

\* initial_health / initial_hunger of the member
MemberHealths == {12, 100}
MemberHungers == {10, 100}
\* amounts passed to take_damage, heal and change_hunger
Amounts == {-15, 0, 15, 150}
\* tags passed to add_status_effect and remove_status_effect
StatusEffects == {"starving", "sick", "snakebitten", "injured", "perished"}

MemberInit ==
    /\ initial_time_limit = MaxTime
    /\ initial_canoe_health = 10
    /\ current_day = 1
    /\ time_remaining = initial_time_limit
    /\ \E initial_health \in MemberHealths, initial_hunger \in MemberHungers :
         party_members = <<PartyMember(Names[1], initial_health, initial_hunger)>>
    /\ \E initial_food \in InitialFoods :
         resources = [food |-> initial_food, canoe_health |-> initial_canoe_health,
                      wood |-> 0, herbs |-> 0, repair_materials |-> 0]
    /\ current_location = None
    /\ active_events = <<>>
    /\ game_over = FALSE
    /\ win_condition_met = FALSE
    /\ loss_reason = NoReason
    /\ message_log = <<>>
    /\ raised = FALSE
    /\ phase = "member"
    /\ over_calls = 0
    /\ lastCall = <<"PartyMember">>
    /\ prev = GS
    /\ logged = <<>>
    /\ returned = <<>>
    /\ calls = 0
    /\ hungers = <<>>

MemberReady ==
    /\ phase = "member"
    /\ calls < MaxMemberCalls

\* a method of the member returned r; its messages go to the log
MemberCall(r, call) ==
    /\ Install(LogAll([GS EXCEPT !.party_members[1] = r.m], r.log), call)
    /\ calls' = calls + 1
    /\ UNCHANGED <<logged, returned, phase, over_calls>>

TakeDamage ==
    /\ MemberReady
    /\ \E amount \in Amounts :
         MemberCall(take_damage(party_members[1], amount), <<"take_damage", amount>>)
    /\ UNCHANGED hungers

Heal ==
    /\ MemberReady
    /\ \E amount \in Amounts :
         MemberCall(heal(party_members[1], amount), <<"heal", amount>>)
    /\ UNCHANGED hungers

ChangeHunger ==
    /\ MemberReady
    /\ \E amount \in Amounts :
         MemberCall(change_hunger(party_members[1], amount),
                    <<"change_hunger", amount>>)
    /\ UNCHANGED hungers

AddStatusEffect ==
    /\ MemberReady
    /\ \E effect \in StatusEffects :
         MemberCall(add_status_effect(party_members[1], effect),
                    <<"add_status_effect", effect>>)
    /\ UNCHANGED hungers

RemoveStatusEffect ==
    /\ MemberReady
    /\ \E effect \in StatusEffects :
         MemberCall(remove_status_effect(party_members[1], effect),
                    <<"remove_status_effect", effect>>)
    /\ UNCHANGED hungers

ApplyDailyEffects ==
    /\ MemberReady
    /\ MemberCall(apply_daily_effects(party_members[1]), <<"apply_daily_effects">>)
    /\ UNCHANGED hungers

MemberNext ==
    \/ TakeDamage
    \/ Heal
    \/ ChangeHunger
    \/ AddStatusEffect
    \/ RemoveStatusEffect
    \/ ApplyDailyEffects

SpecMember == MemberInit /\ [][MemberNext]_vars

----------------------------------------------------------------------------
(* The hunger of one member on its own: a living member that is not       *)
(* starving is constructed and only change_hunger is called on it.        *)
(* hungers is the member's hunger after each call so far.                  *)

\* amounts passed to change_hunger
HungerAmounts == {-15, 0, 5, 15}

ChangeHungerOnly ==
    /\ MemberReady
    /\ \E amount \in HungerAmounts :
         LET r == change_hunger(party_members[1], amount)
         IN /\ MemberCall(r, <<"change_hunger", amount>>)
            /\ hungers' = Append(hungers, r.m.hunger)

HungerNext == ChangeHungerOnly

SpecHunger == MemberInit /\ [][HungerNext]_vars

----------------------------------------------------------------------------
(* The game with its events: a game has been set up at the start location *)
(* and the events of load_events() are triggered on it in any order,      *)
(* between actions of the party.                                           *)

\* the parties of the games the events are triggered on
EventParties ==
    UNION { { [i \in 1..n |-> PartyMember(Names[i], f[i], 10)] :
                f \in [1..n -> InitialHealths] } : n \in 0..2 }

EventInit ==
    /\ initial_time_limit = MaxTime
    /\ initial_canoe_health \in InitialCanoeHealths
    /\ current_day = 1
    /\ time_remaining = initial_time_limit
    /\ party_members \in EventParties
    /\ \E initial_food \in InitialFoods :
         resources = [food |-> initial_food, canoe_health |-> initial_canoe_health,
                      wood |-> 0, herbs |-> 0, repair_materials |-> 0]
    /\ current_location = "start_hammock"
    /\ active_events = <<>>
    /\ game_over = FALSE
    /\ win_condition_met = FALSE
    /\ loss_reason = NoReason
    /\ message_log = <<>>
    /\ raised = FALSE
    /\ phase = "ready"
    /\ over_calls = 0
    /\ lastCall = <<"setup_game", "start_hammock">>
    /\ prev = GS
    /\ logged = <<>>
    /\ returned = <<>>
    /\ calls = 0
    /\ hungers = <<>>

TriggerEvent ==
    /\ phase = "ready" /\ ~raised
    /\ calls < MaxEventCalls
    /\ \E event_id \in EventIds :
         \E r \in trigger(GS, event_id) :
           Install(r.g, <<"trigger", event_id, r.message>>)
    /\ calls' = calls + 1
    /\ UNCHANGED <<phase, over_calls, logged, returned, hungers>>

\* an action that changes resources or costs a day, executed between events
PlayAction ==
    /\ phase = "ready" /\ ~raised
    /\ calls < MaxEventCalls
    /\ \E action_type \in {"travel", "forage", "rest"} :
         \E details \in (IF action_type = "travel" THEN TravelDetails ELSE {NoDetails}) :
           \E g \in execute_action(GS, action_type, details) :
             Install(g, <<"execute_action", action_type, details>>)
    /\ calls' = calls + 1
    /\ UNCHANGED <<phase, over_calls, logged, returned, hungers>>

EventNext == TriggerEvent \/ PlayAction

SpecEvents == EventInit /\ [][EventNext]_vars

----------------------------------------------------------------------------
(* The game loop of main.py: while the game is not over, one turn drains   *)
(* the message log for display and executes the action the player chose.  *)

\* one iteration of the loop of game_loop with the player's choice
Turn(action_type, details) ==
    /\ phase = "ready" /\ ~raised
    /\ ~game_over
    /\ \E g \in execute_action(get_and_clear_messages(GS), action_type, details) :
         Install(g, <<"execute_action", action_type, details>>)
    /\ UNCHANGED <<phase, over_calls, logged, returned, calls, hungers>>

\* the player rests
RestTurn ==
    /\ phase = "ready"
    /\ Turn("rest", NoDetails)

\* the player forages
ForageTurn ==
    /\ phase = "ready"
    /\ Turn("forage", NoDetails)

\* the player travels along a label offered at the party's location; a
\* label that needs the canoe is refused by get_player_input while the canoe
\* is not functional
TravelTurn ==
    /\ current_location # None
    /\ \E details \in DOMAIN Locations[current_location].connections :
         /\ ~(requires_canoe(details) /\ resources.canoe_health <= 0)
         /\ Turn("travel", details)

LoopNext == SetupGame \/ RestTurn \/ ForageTurn \/ TravelTurn

\* the player keeps choosing to rest for as long as the loop runs
SpecLoop == Init /\ [][LoopNext]_vars /\ WF_vars(RestTurn)

----------------------------------------------------------------------------
(* Properties.  "The call" is the last call made (lastCall); prev is the   *)
(* state in which it started.                                              *)

Called(op) == lastCall[1] = op

\* the call was execute_action(game_state, "travel", details) along a
\* connection of the location the party was at
ValidTravel ==
    /\ Called("execute_action")
    /\ lastCall[2] = "travel"
    /\ prev.current_location # None
    /\ lastCall[3] \in DOMAIN Locations[prev.current_location].connections

\* the call advanced the day of an active game
DayAdvanced ==
    /\ Called("advance_day") \/ Called("execute_action")
    /\ ~prev.game_over
    /\ current_day = prev.current_day + 1

\* the call ran check_game_over_conditions on an active game
EvaluationRan ==
    /\ ~prev.game_over
    /\ ~raised
    /\ Called("check_game_over_conditions") \/ DayAdvanced

\* C1: once game_over is true it stays true through every call, and a later
\* call of set_game_over, check_game_over_conditions or advance_day leaves
\* win_condition_met and loss_reason as the first set_game_over recorded them.
C1_GameOverIsTerminal ==
    prev.game_over =>
        /\ game_over
        /\ (Called("set_game_over") \/ Called("check_game_over_conditions")
               \/ Called("advance_day")) =>
             /\ win_condition_met = prev.win_condition_met
             /\ loss_reason = prev.loss_reason

\* a second set_game_over with another verdict and reason was ignored
C1_Witness ==
    /\ prev.game_over
    /\ Called("set_game_over")
    /\ lastCall[2] # win_condition_met
    /\ lastCall[3] # loss_reason

\* everything advance_day could touch, apart from the message log
SameButLog ==
    /\ current_day = prev.current_day
    /\ time_remaining = prev.time_remaining
    /\ resources = prev.resources
    /\ party_members = prev.party_members
    /\ current_location = prev.current_location
    /\ game_over = prev.game_over
    /\ win_condition_met = prev.win_condition_met
    /\ loss_reason = prev.loss_reason

\* C2 as claimed: advance_day called while game_over is true changes nothing,
\* the length of the message log included.
C2_Original ==
    (Called("advance_day") /\ prev.game_over) =>
        /\ SameButLog
        /\ Len(message_log) = Len(prev.message_log)

\* C2 as amended: advance_day called while game_over is true changes nothing
\* except that it appends the one message "Cannot advance day: Game is
\* already over." to the message log.
C2_AdvanceDayWhenOver ==
    (Called("advance_day") /\ prev.game_over) =>
        /\ SameButLog
        /\ message_log = Append(prev.message_log,
                                <<"Cannot advance day: Game is already over.">>)
        /\ ~raised

C2_Witness ==
    /\ Called("advance_day")
    /\ prev.game_over
    /\ Len(message_log) = Len(prev.message_log) + 1

\* C3: whenever game-over evaluation runs on an active game whose current
\* location is a destination, the game ends as a win naming that location,
\* whatever time_remaining is and whether or not anyone is alive; a loss is
\* recorded by an evaluation only at a location that is not a destination.
C3_DestinationWinsFirst ==
    EvaluationRan =>
        /\ IsDestination(current_location) =>
             /\ game_over
             /\ win_condition_met
             /\ loss_reason = ReachedReason(Locations[current_location].name)
        /\ (game_over /\ ~win_condition_met) => ~IsDestination(current_location)

\* evaluation at a destination with no time left and nobody alive: a win
C3_Witness ==
    /\ EvaluationRan
    /\ IsDestination(current_location)
    /\ time_remaining < 0
    /\ party_members # <<>>
    /\ ~AnyAlive(GS)
    /\ win_condition_met

\* C4: after any advance_day that returns with time_remaining <= 0 at a
\* location that is not a destination, the game is over as a loss with the
\* ran-out-of-time reason.
C4_TimeOutAtZero ==
    (DayAdvanced /\ ~raised /\ time_remaining <= 0
        /\ ~IsDestination(current_location)) =>
        /\ game_over
        /\ ~win_condition_met
        /\ loss_reason = TimeReason

\* the members as one day's effects (PartyMember.apply_daily_effects) leave them
AfterDailyEffects(party) ==
    [i \in DOMAIN party |-> apply_daily_effects(party[i]).m]

\* C5: after any advance_day at a non-destination location with time still
\* remaining, if no member is alive once the day's effects have been applied
\* (a member who dies of this day's effects included), the game is over as a
\* loss with the party-perished reason within that same advance_day.
C5_PerishedSameDay ==
    (/\ Called("advance_day")
     /\ ~prev.game_over
     /\ ~IsDestination(prev.current_location)
     /\ prev.time_remaining - 1 > 0
     /\ \A i \in DOMAIN prev.party_members :
            ~is_alive(AfterDailyEffects(prev.party_members)[i])) =>
        /\ game_over
        /\ ~win_condition_met
        /\ loss_reason = PerishedReason

NumLiving(g) == Cardinality(LivingMembers(g))

\* C6: each advance_day on an active game increases current_day by exactly 1
\* and decreases time_remaining by exactly 1, then runs daily food
\* consumption (one unit per living member while food lasts), the per-member
\* daily effects, and game-over evaluation last, all three to completion.
C6_AdvanceDayPhases ==
    (Called("advance_day") /\ ~prev.game_over) =>
        /\ current_day = prev.current_day + 1
        /\ time_remaining = prev.time_remaining - 1
        /\ resources.food = prev.resources.food - Min(prev.resources.food, NumLiving(prev))
        /\ ~raised
        /\ \A i \in LivingMembers(prev) :
              party_members[i].hunger <= prev.party_members[i].hunger
        /\ ~AnyAlive(GS) => game_over

\* the living members that are at least as hungry as member i and come
\* before it in the feeding order (ascending hunger, party order on ties)
FedBefore(g, i) ==
    {j \in LivingMembers(g) :
        \/ g.party_members[j].hunger < g.party_members[i].hunger
        \/ g.party_members[j].hunger = g.party_members[i].hunger /\ j < i}

IsFed(g, i) == Cardinality(FedBefore(g, i)) < g.resources.food

\* C7: during advance_day the living members are fed in ascending order of
\* hunger: each one, while food >= 1, consumes one unit and gains 10 hunger
\* (before the day's own -10), and once food is exhausted the rest go unfed.
C7_HungriestFedFirst ==
    (Called("advance_day") /\ ~prev.game_over) =>
        /\ resources.food = prev.resources.food - Min(prev.resources.food, NumLiving(prev))
        /\ \A i \in LivingMembers(prev) :
              party_members[i].hunger =
                  IF IsFed(prev, i)
                  THEN Max(0, Min(prev.party_members[i].max_hunger,
                                  prev.party_members[i].hunger + 10) - 10)
                  ELSE Max(0, prev.party_members[i].hunger - 10)

\* C8: a travel action of an active game that moves the party onto a
\* destination ends the game within that action: game_over and
\* win_condition_met are true and loss_reason names that location.
C8_ArrivalWins ==
    (/\ ValidTravel
     /\ ~prev.game_over
     /\ current_location # prev.current_location
     /\ IsDestination(current_location)) =>
        /\ game_over
        /\ win_condition_met
        /\ loss_reason = ReachedReason(Locations[current_location].name)

\* the evaluation's precondition in C9: an active game, canoe destroyed, not
\* at a destination, time remaining, somebody alive
CanoeOnlyTrouble ==
    /\ Called("check_game_over_conditions")
    /\ ~prev.game_over
    /\ prev.resources.canoe_health = 0
    /\ ~IsDestination(prev.current_location)
    /\ prev.time_remaining > 0
    /\ AnyAlive(prev)

\* C9: game-over evaluation with canoe_health = 0, a non-destination
\* location, time remaining and a living member leaves game_over false and
\* only logs the warning.
C9_DestroyedCanoeIsNotALoss ==
    CanoeOnlyTrouble =>
        /\ ~game_over
        /\ SameButLog
        /\ message_log = Append(prev.message_log,
                                <<"Warning: The canoe has been destroyed!">>)

C9_Witness ==
    /\ CanoeOnlyTrouble
    /\ ~game_over
    /\ Len(message_log) = Len(prev.message_log) + 1

HasCanoeHazard(location_id) ==
    \E k \in DOMAIN hazards_of(location_id) :
        hazards_of(location_id)[k] \in DOMAIN HAZARD_CANOE_DAMAGE

HasPersonHazard(location_id) ==
    \E k \in DOMAIN hazards_of(location_id) :
        hazards_of(location_id)[k] \in DOMAIN HAZARD_PERSON_DAMAGE

\* the hazards that acted in the call are those of the departure location
DepartureHazardsOnly ==
    /\ resources.canoe_health # prev.resources.canoe_health
          => HasCanoeHazard(prev.current_location)
    /\ party_members # prev.party_members
          => HasPersonHazard(prev.current_location)

\* the vehicle check sees the canoe as the hazards left it, and decides the move
MoveFollowsVehicleCheck ==
    IF requires_canoe(lastCall[3]) /\ resources.canoe_health <= 0
    THEN /\ current_location = prev.current_location
         /\ current_day = prev.current_day
         /\ time_remaining = prev.time_remaining
    ELSE /\ current_location =
              Locations[prev.current_location].connections[lastCall[3]]
         /\ current_day = prev.current_day + (IF prev.game_over THEN 0 ELSE 1)
         /\ time_remaining = prev.time_remaining - (IF prev.game_over THEN 0 ELSE 1)

\* C10 as claimed: in every travel along a valid connection the hazards of
\* the departure location are resolved first; a paddle label with
\* canoe_health <= 0 after the hazards leaves location and day unchanged;
\* otherwise the party moves to the connection's destination and the day
\* advances.
C10_Original ==
    ValidTravel =>
        /\ DepartureHazardsOnly
        /\ IF requires_canoe(lastCall[3]) /\ resources.canoe_health <= 0
           THEN /\ current_location = prev.current_location
                /\ current_day = prev.current_day
           ELSE /\ current_location =
                     Locations[prev.current_location].connections[lastCall[3]]
                /\ current_day = prev.current_day + 1

\* C10 as amended: as claimed, except that the day advances only when the
\* game was not already over when the action started; on a game that is
\* over the party still moves but current_day and time_remaining stay.
C10_TravelSequencing ==
    ValidTravel => (DepartureHazardsOnly /\ MoveFollowsVehicleCheck)

\* a paddle travel whose own hazard destroyed the canoe, and was aborted
C10_Witness ==
    /\ ValidTravel
    /\ ~prev.game_over
    /\ requires_canoe(lastCall[3])
    /\ prev.resources.canoe_health > 0
    /\ resources.canoe_health = 0
    /\ current_location = prev.current_location
    /\ current_day = prev.current_day

\* the call was a travel along a valid connection that was aborted at the
\* vehicle check
TravelAborted ==
    /\ ValidTravel
    /\ requires_canoe(lastCall[3])
    /\ resources.canoe_health <= 0

\* the call was a travel along a valid connection that moved the party
TravelCompleted == ValidTravel /\ ~TravelAborted

\* the call was execute_action with an action that costs a day
DayCostingAction ==
    /\ Called("execute_action")
    /\ lastCall[2] \in {"forage", "rest"} \/ TravelCompleted

\* C11 as claimed: execute_action advances the day exactly once for forage,
\* for rest and for a travel that completes, and never for repair, status,
\* quit, an unrecognized action type, a travel along an unconnected label or
\* an aborted travel.
C11_Original ==
    Called("execute_action") =>
        IF DayCostingAction
        THEN /\ current_day = prev.current_day + 1
             /\ time_remaining = prev.time_remaining - 1
        ELSE /\ current_day = prev.current_day
             /\ time_remaining = prev.time_remaining

\* C11 as amended: on a game that is not over when the action starts,
\* execute_action advances the day exactly once for forage, for rest and for
\* a travel that completes; it never advances the day for repair, status,
\* quit, an unrecognized action type, a travel along an unconnected label or
\* an aborted travel, nor for any action on a game that is already over.
C11_DayAdvancesOncePerCostlyAction ==
    Called("execute_action") =>
        IF DayCostingAction /\ ~prev.game_over
        THEN /\ current_day = prev.current_day + 1
             /\ time_remaining = prev.time_remaining - 1
        ELSE /\ current_day = prev.current_day
             /\ time_remaining = prev.time_remaining

\* a forage that cost one day, on an active game
C11_Witness ==
    /\ Called("execute_action")
    /\ lastCall[2] = "forage"
    /\ ~prev.game_over
    /\ resources.food > prev.resources.food
    /\ current_day = prev.current_day + 1

KnownActionTypes == {"travel", "forage", "rest", "repair", "status", "quit"}

\* the call was execute_action with an unknown action type, or a travel
\* along a label that is no connection of the location the party was at
RejectedAction ==
    /\ Called("execute_action")
    /\ \/ lastCall[2] \notin KnownActionTypes
       \/ lastCall[2] = "travel" /\ ~ValidTravel

\* the call appended exactly one message to the log
OneMessageLogged ==
    /\ Len(message_log) = Len(prev.message_log) + 1
    /\ SubSeq(message_log, 1, Len(prev.message_log)) = prev.message_log

\* C12: an unknown action type, or a travel along a label that is not a
\* connection of the current location, appends one log message and changes
\* nothing else: no hazard is resolved and current_location, resources, party
\* state, current_day and time_remaining are unchanged.
C12_RejectedActionOnlyLogs ==
    RejectedAction =>
        /\ SameButLog
        /\ OneMessageLogged
        /\ message_log[Len(message_log)][1] \in
              {"Unknown action type", "Cannot travel via", "Invalid travel details."}
        /\ ~raised

\* an unconnected label tried on an active game at a location that has
\* hazards, with somebody alive to meet them
C12_Witness ==
    /\ RejectedAction
    /\ lastCall[2] = "travel"
    /\ lastCall[3] # NoDetails
    /\ ~prev.game_over
    /\ prev.current_location # None
    /\ hazards_of(prev.current_location) # <<>>
    /\ LivingMembers(prev) # {}

\* C13 as claimed: a paddle travel that is aborted because the canoe is
\* destroyed leaves every part of the state other than the message log
\* unchanged: resources, every member's health and status effects,
\* current_location, current_day and time_remaining.
C13_Original ==
    TravelAborted =>
        /\ resources = prev.resources
        /\ party_members = prev.party_members
        /\ current_location = prev.current_location
        /\ current_day = prev.current_day
        /\ time_remaining = prev.time_remaining

\* member i is as it was, or was hurt: health no higher, status effects kept
\* with at most "injured" and "perished" added, everything else the same
SameOrHurt(i) ==
    LET m == party_members[i]
        m0 == prev.party_members[i]
    IN /\ m.name = m0.name
       /\ m.max_health = m0.max_health
       /\ m.max_hunger = m0.max_hunger
       /\ m.hunger = m0.hunger
       /\ m.health <= m0.health
       /\ m0.status_effects \subseteq m.status_effects
       /\ m.status_effects \subseteq m0.status_effects \cup {"injured", "perished"}

\* C13 as amended: a paddle travel that is aborted because the canoe is
\* destroyed leaves current_location, current_day, time_remaining, the game
\* result and every resource other than canoe_health unchanged; the hazards
\* of the departure location are resolved before the abort, so canoe_health
\* may have dropped (to 0) and living members may have lost health and
\* gained "injured" or "perished".
C13_AbortKeepsPlaceAndDay ==
    TravelAborted =>
        /\ current_location = prev.current_location
        /\ current_day = prev.current_day
        /\ time_remaining = prev.time_remaining
        /\ game_over = prev.game_over
        /\ win_condition_met = prev.win_condition_met
        /\ loss_reason = prev.loss_reason
        /\ resources = [prev.resources EXCEPT !.canoe_health = resources.canoe_health]
        /\ resources.canoe_health <= prev.resources.canoe_health
        /\ DOMAIN party_members = DOMAIN prev.party_members
        /\ \A i \in DOMAIN party_members : SameOrHurt(i)
        /\ DepartureHazardsOnly
        /\ message_log[Len(message_log)] = <<"Travel aborted! The canoe is too damaged.">>
        /\ ~raised

\* an aborted paddle travel on an active game in which a member was hurt
C13_Witness ==
    /\ TravelAborted
    /\ ~prev.game_over
    /\ \E i \in DOMAIN party_members :
         /\ party_members[i].health < prev.party_members[i].health
         /\ "injured" \in party_members[i].status_effects

\* C14: for every reachable active state and every action type,
\* execute_action completes without raising and returns a valid next state;
\* in particular the day advance it triggers applies every living member's
\* daily effects without error.
C14_ExecuteActionIsTotal ==
    (Called("execute_action") /\ ~prev.game_over) => ~raised

\* C15: setup_game with a start_location_id absent from the location table
\* immediately puts the game in game_over with win_condition_met false and a
\* setup-error loss_reason, logs the error and leaves current_location
\* unset; with an id present in the table the game stays active at that
\* location.
C15_SetupGameStartLocation ==
    Called("setup_game") =>
        /\ ~raised
        /\ IF lastCall[2] \in LocationIds
           THEN /\ ~game_over
                /\ ~win_condition_met
                /\ loss_reason = NoReason
                /\ current_location = lastCall[2]
           ELSE /\ game_over
                /\ ~win_condition_met
                /\ loss_reason = SetupErrorReason
                /\ current_location = None
                /\ message_log = Append(prev.message_log,
                       <<"Error: Start location ID not found", lastCall[2]>>)

\* setup_game was given a start location that is not in the table
C15_Witness ==
    /\ Called("setup_game")
    /\ lastCall[2] \notin LocationIds
    /\ party_members # <<>>
    /\ game_over

RECURSIVE Concat(_)
\* the lists of a sequence of lists, one after the other
Concat(lists) == IF lists = <<>> THEN <<>> ELSE Head(lists) \o Concat(Tail(lists))

\* C16: for any interleaving of log_message and get_and_clear_messages calls,
\* every logged message is returned by exactly one drain, in the order
\* logged: a drain returns exactly the messages logged since the previous
\* drain and leaves the log empty.
C16_EveryMessageDrainedOnce ==
    /\ Concat(returned) \o message_log = logged
    /\ Called("get_and_clear_messages") =>
         /\ message_log = <<>>
         /\ returned[Len(returned)] = prev.message_log
         /\ Concat(returned) = logged

\* two drains, the first of one message and the second of two different ones
C16_Witness ==
    /\ Called("get_and_clear_messages")
    /\ Len(returned) = 2
    /\ Len(returned[1]) = 1
    /\ Len(returned[2]) = 2
    /\ returned[2][1] # returned[2][2]

\* the member the calls are made on, now and when the last call started
Member == party_members[1]
MemberBefore == prev.party_members[1]

\* the messages the last call appended to the log
NewMessages == SubSeq(message_log, Len(prev.message_log) + 1, Len(message_log))

\* C17: starting from a member with 0 <= health <= max_health and
\* 0 <= hunger <= max_hunger, after any sequence of take_damage, heal,
\* change_hunger and apply_daily_effects calls with arbitrary integer
\* amounts, health stays in [0, max_health] and hunger in [0, max_hunger].
C17_HealthAndHungerInRange ==
    /\ 0 <= Member.health /\ Member.health <= Member.max_health
    /\ 0 <= Member.hunger /\ Member.hunger <= Member.max_hunger

\* a heal that would have gone past max_health stopped there, on a member
\* whose hunger an earlier call had clamped at 0
C17_Witness ==
    /\ Called("heal")
    /\ MemberBefore.health + lastCall[2] > Member.max_health
    /\ Member.health = Member.max_health
    /\ Member.hunger = 0

\* C18: in every state reachable from a living member without "perished"
\* through take_damage, heal, change_hunger, add_status_effect,
\* remove_status_effect and apply_daily_effects, "perished" is in
\* status_effects iff health == 0, and is_alive() iff health > 0.
C18_PerishedIffDead ==
    /\ "perished" \in Member.status_effects <=> Member.health = 0
    /\ is_alive(Member) <=> Member.health > 0

\* the number of messages in a list that report the death of the member
RECURSIVE DeathsLogged(_)
DeathsLogged(messages) ==
    IF messages = <<>> THEN 0
    ELSE (IF Head(messages)[1] = "has perished" THEN 1 ELSE 0)
         + DeathsLogged(Tail(messages))

\* C19: take_damage with an amount >= current health sets health to exactly
\* 0, makes is_alive() false and adds "perished", logging the death once; any
\* further take_damage call changes nothing, so "perished" is added (and the
\* death logged) exactly once.
C19_LethalDamageOnce ==
    Called("take_damage") =>
        /\ (is_alive(MemberBefore) /\ lastCall[2] >= MemberBefore.health) =>
             /\ Member.health = 0
             /\ ~is_alive(Member)
             /\ "perished" \in Member.status_effects
             /\ DeathsLogged(NewMessages) = 1
        /\ ~is_alive(MemberBefore) =>
             /\ Member = MemberBefore
             /\ message_log = prev.message_log

\* C20: take_damage(a) and heal(a) with a <= 0 leave health, hunger, status
\* effects and the message log unchanged, and change_hunger(0) leaves hunger
\* unchanged.
C20_NonPositiveAmountsDoNothing ==
    /\ ((Called("take_damage") \/ Called("heal")) /\ lastCall[2] <= 0) =>
         /\ Member = MemberBefore
         /\ message_log = prev.message_log
    /\ (Called("change_hunger") /\ lastCall[2] = 0) =>
         Member.hunger = MemberBefore.hunger

\* a negative damage dealt to a living member that is below max_health
C20_Witness ==
    /\ Called("take_damage")
    /\ lastCall[2] < 0
    /\ is_alive(MemberBefore)
    /\ MemberBefore.health < MemberBefore.max_health
    /\ prev.message_log # <<>>

\* the last call was one of the methods that leave a dead member alone
CallOnTheDead ==
    /\ ~is_alive(MemberBefore)
    /\ \/ Called("take_damage") \/ Called("heal") \/ Called("change_hunger")
       \/ Called("apply_daily_effects")
       \/ Called("add_status_effect") /\ lastCall[2] # "perished"

\* C21: perished is terminal: once a member's health is 0, no take_damage,
\* heal, change_hunger, apply_daily_effects or add_status_effect (with a tag
\* other than "perished") call changes that member's health, hunger or
\* status effects.
C21_PerishedIsTerminal ==
    CallOnTheDead =>
        /\ Member = MemberBefore
        /\ message_log = prev.message_log

\* a heal of 150 given to a member that an earlier call had killed
C21_Witness ==
    /\ CallOnTheDead
    /\ Called("heal")
    /\ lastCall[2] > 0
    /\ "perished" \in MemberBefore.status_effects
    /\ Member.health = 0

\* hunger has at some point reached 0 and has not exceeded 10 since
ReachedZeroAndNotFedSince ==
    \E i \in DOMAIN hungers :
        /\ hungers[i] <= 0
        /\ \A j \in (i + 1)..Len(hungers) : hungers[j] <= 10

\* C22: after any sequence of change_hunger calls on a living member that
\* starts with hunger > 0 and without "starving", "starving" is present
\* exactly when hunger has at some point reached 0 and has not exceeded 10
\* since; the latest entry of the history is the member's hunger.
C22_StarvingHysteresis ==
    /\ "starving" \in Member.status_effects <=> ReachedZeroAndNotFedSince
    /\ hungers # <<>> => hungers[Len(hungers)] = Member.hunger

\* hunger 10 brought to 0, then to 5 and then to 20: the tag, kept at 5, is
\* gone at 20
C22_Witness ==
    /\ Len(hungers) = 3
    /\ hungers[1] = 0
    /\ hungers[2] \in 1..10
    /\ hungers[3] > 10
    /\ "starving" \notin Member.status_effects
    /\ "starving" \in MemberBefore.status_effects

\* the hunger a living member has after its daily loss of 10
HungerAfterDay == Max(0, MemberBefore.hunger - 10)

\* whether the member is starving once its hunger has dropped for the day
StarvingAfterDay ==
    \/ HungerAfterDay <= 0
    \/ "starving" \in MemberBefore.status_effects /\ HungerAfterDay <= 10

\* the damage the tags of the member cost it that day
DailyDamage ==
    (IF StarvingAfterDay THEN 12 ELSE 0)
    + (IF "sick" \in MemberBefore.status_effects THEN 3 ELSE 0)
    + (IF "snakebitten" \in MemberBefore.status_effects THEN 8 ELSE 0)

StarvingDay ==
    /\ Called("apply_daily_effects")
    /\ is_alive(MemberBefore)
    /\ "starving" \in MemberBefore.status_effects
    /\ MemberBefore.hunger = 0

NothingChanged ==
    /\ Member = MemberBefore
    /\ message_log = prev.message_log

\* the call changed the member's status effects to tags, nothing else of the
\* member, and logged one message
OnlyTagsChanged(tags) ==
    /\ Member = [MemberBefore EXCEPT !.status_effects = tags]
    /\ Len(NewMessages) = 1

C26_ResourcesInRange ==
    /\ \A k \in DOMAIN resources : resources[k] \in Nat
    /\ resources.canoe_health <= initial_canoe_health

\* the event triggered last was event_id
Triggered(event_id) == Called("trigger") /\ lastCall[2] = event_id

\* a storm whose damage was more than the canoe had left, after a forage
C26_Witness ==
    /\ Triggered("storm_01")
    /\ prev.resources.canoe_health > 0
    /\ lastCall[3][2][2] > prev.resources.canoe_health
    /\ resources.canoe_health = 0
    /\ resources.food > 1

\* everything of the game but its party, its log and its active events is
\* as it was
OnlyPartyTouched ==
    /\ resources = prev.resources
    /\ current_location = prev.current_location
    /\ current_day = prev.current_day
    /\ time_remaining = prev.time_remaining
    /\ game_over = prev.game_over
    /\ win_condition_met = prev.win_condition_met
    /\ loss_reason = prev.loss_reason

\* the snake found nobody alive: nothing is changed
NobodyBitten ==
    /\ party_members = prev.party_members
    /\ OnlyPartyTouched
    /\ lastCall[3] = << <<"no one left to bite">> >>

Bitten(m0, bite_damage) ==
    IF bite_damage >= m0.health
    THEN [m0 EXCEPT !.health = 0, !.status_effects = @ \cup {"perished"}]
    ELSE [m0 EXCEPT !.health = @ - bite_damage,
                    !.status_effects = @ \cup {"snakebitten"}]

CanoeDamageReported ==
    \E k \in DOMAIN lastCall[3] :
        lastCall[3][k][1] = "The canoe is battered, taking damage"

\* C28: sudden_storm_effect damages the canoe only when canoe_health > 0, by
\* an amount in 5..25 and never below 0; when canoe_health is already 0 the
\* canoe takes no further damage and the returned message reports that no
\* damage was taken.
C28_StormSparesDestroyedCanoe ==
    (Triggered("storm_01") /\ ~raised) =>
        IF prev.resources.canoe_health > 0
        THEN \E canoe_damage \in 5..25 :
               resources.canoe_health =
                   Max(0, prev.resources.canoe_health - canoe_damage)
        ELSE /\ resources.canoe_health = prev.resources.canoe_health
             /\ ~CanoeDamageReported

\* C29: found_berries_effect always increases food by an amount in 3..8 and,
\* in the poison case, gives "sick" to exactly one living member; when the
\* party has no living member it still completes (grants the food and
\* returns a message) rather than failing.
C29_BerriesAlwaysComplete ==
    Triggered("find_berries_01") =>
        /\ ~raised
        /\ resources.food - prev.resources.food \in 3..8
        /\ \/ party_members = prev.party_members
           \/ \E i \in LivingMembers(prev) :
                party_members =
                  [prev.party_members EXCEPT ![i].status_effects = @ \cup {"sick"}]
        /\ lastCall[3] # None

\* the game as one call of the event's effect can leave it, with the message
\* that call returns
OneEffectCall ==
    \E r \in apply_effect(prev, lastCall[2]) :
        /\ ~r.g.raised
        /\ lastCall[3] = r.message
        /\ GS = [r.g EXCEPT !.active_events = active_events]

\* C30: GameEvent.trigger invokes the bound effect function exactly once with
\* the game state, returns the effect's outcome message unchanged, and leaves
\* the event appended to the state's active_events; triggering the same event
\* again repeats this (one more effect call, one more active_events entry).
C30_TriggerAppliesEffectOnce ==
    Called("trigger") =>
        /\ ~raised
        /\ OneEffectCall
        /\ active_events = Append(prev.active_events, lastCall[2])


\* ---------------------------------------------------------------------
\* Travel hazards (main.py, check_travel_hazards)
\* ---------------------------------------------------------------------

\* the hazard tag was rolled and fired in the last call
Fired(hazard) ==
    \E k \in DOMAIN NewMessages : NewMessages[k] = <<"Hazard encountered", hazard>>

\* the vehicle-damage hazards that fired in the last call
FiredCanoeHazards == {hazard \in DOMAIN HAZARD_CANOE_DAMAGE : Fired(hazard)}

\* C31: in the travel hazard step a vehicle-damage hazard that fires lowers
\* canoe_health by an amount of its damage range, stopping at 0: the canoe
\* ends at max(0, health - damage) for a damage of the range, and a travel
\* attempt in which no vehicle-damage hazard fires leaves canoe_health alone.
C31_CanoeHazardDamageInRange ==
    ValidTravel =>
        /\ resources.canoe_health >= 0
        /\ FiredCanoeHazards = {} => resources.canoe_health = prev.resources.canoe_health
        /\ \A hazard \in FiredCanoeHazards :
              \E damage \in HAZARD_CANOE_DAMAGE[hazard][1] .. HAZARD_CANOE_DAMAGE[hazard][2] :
                  resources.canoe_health = Max(0, prev.resources.canoe_health - damage)

\* submerged logs fired on a canoe of health 10 and took 5 of it
C31_Witness ==
    /\ ValidTravel
    /\ Fired("submerged logs")
    /\ prev.resources.canoe_health = 10
    /\ resources.canoe_health = 5


\* the hazard tags of the current location, as a set
HazardTags == {hazards_of(current_location)[k] : k \in DOMAIN hazards_of(current_location)}

\* the hazard tags that fired on the way from the current state to outcome g2
\* of the hazard step
FiredIn(g2) ==
    {hazard \in HazardTags :
        \E k \in (Len(message_log) + 1) .. Len(g2.message_log) :
            g2.message_log[k] = <<"Hazard encountered", hazard>>}

FiredPersonHazards == {hazard \in DOMAIN HAZARD_PERSON_DAMAGE : Fired(hazard)}

\* member i, alive before the call, took a hit of the hazard's range and
\* nobody else changed
HitBy(hazard, i) ==
    /\ prev.party_members[i].health > 0
    /\ \E damage \in HAZARD_PERSON_DAMAGE[hazard][1] .. HAZARD_PERSON_DAMAGE[hazard][2] :
          party_members[i].health = Max(0, prev.party_members[i].health - damage)
    /\ \A j \in DOMAIN party_members : j # i => party_members[j] = prev.party_members[j]

OtherTagsDamage ==
    (IF "sick" \in MemberBefore.status_effects THEN 3 ELSE 0)
    + (IF "snakebitten" \in MemberBefore.status_effects THEN 8 ELSE 0)

\* C34: a living member without "starving" whose hunger is at most 10 when
\* apply_daily_effects starts ends the call at hunger 0 with "starving" and
\* has taken the starving damage of 12 in that same call (next to the damage
\* of its other tags); a living member without "starving" whose hunger stays
\* above 0 gains no "starving" and loses no health beyond what its other
\* tags cost.
C34_StarvationStartsTheSameDay ==
    (/\ Called("apply_daily_effects")
     /\ is_alive(MemberBefore)
     /\ "starving" \notin MemberBefore.status_effects) =>
        IF MemberBefore.hunger <= 10
        THEN /\ Member.hunger = 0
             /\ "starving" \in Member.status_effects
             /\ Member.health = Max(0, MemberBefore.health - (12 + OtherTagsDamage))
        ELSE /\ Member.hunger = MemberBefore.hunger - 10
             /\ "starving" \notin Member.status_effects
             /\ Member.health = Max(0, MemberBefore.health - OtherTagsDamage)

\* a healthy member at hunger 10 with no tag ends the day starving, 12 lower
C34_Witness ==
    /\ Called("apply_daily_effects")
    /\ MemberBefore.hunger = 10
    /\ MemberBefore.status_effects = {}
    /\ MemberBefore.health = 100
    /\ Member.health = 88
    /\ Member.status_effects = {"starving"}


\* ---------------------------------------------------------------------
\* Whole-game properties
\* ---------------------------------------------------------------------

\* C35: in every reachable state current_day + time_remaining equals
\* 1 + the initial time limit; the two counters change only together, by +1
\* and -1, in a day advance of an active game (advance_day itself or the
\* advance_day that ends a day-costing execute_action).
C35_DayAndTimeMoveTogether ==
    /\ current_day + time_remaining = 1 + initial_time_limit
    /\ (current_day # prev.current_day \/ time_remaining # prev.time_remaining) =>
          /\ Called("advance_day") \/ DayCostingAction
          /\ ~prev.game_over
          /\ current_day = prev.current_day + 1
          /\ time_remaining = prev.time_remaining - 1

\* a day has passed of a limit of two: day 2, one day left
C35_Witness ==
    /\ DayAdvanced
    /\ initial_time_limit = 2
    /\ current_day = 2
    /\ time_remaining = 1


\* C36: setup_game with a start location of the table puts the party there;
\* from then on current_location is always an entry of the location table,
\* and it changes only in a travel action that completes, to exactly the
\* location that the connections of the previous location give for the
\* chosen label.
C36_LocationFollowsConnections ==
    /\ (Called("setup_game") /\ lastCall[2] \in LocationIds) =>
          current_location = lastCall[2]
    /\ (~Called("setup_game") /\ prev.current_location \in LocationIds) =>
          /\ current_location \in LocationIds
          /\ current_location # prev.current_location => TravelCompleted
          /\ TravelCompleted =>
                current_location =
                    Locations[prev.current_location].connections[lastCall[3]]

\* the party paddled north from the murky slough and stands at the river fork
C36_Witness ==
    /\ TravelCompleted
    /\ prev.current_location = "murky_slough"
    /\ lastCall[3] = <<"paddle", "north">>
    /\ current_location = "river_fork"


\* the last call turned win_condition_met from false to true
WinJustSet == win_condition_met /\ ~prev.win_condition_met

C39_FinishedGameIsFrozen ==
    (Called("execute_action") /\ prev.game_over) =>
        /\ ~raised
        /\ current_location = prev.current_location
        /\ resources = prev.resources
        /\ party_members = prev.party_members
        /\ current_day = prev.current_day
        /\ time_remaining = prev.time_remaining
        /\ game_over
        /\ win_condition_met = prev.win_condition_met
        /\ loss_reason = prev.loss_reason


\* C38: the game always ends if time keeps passing: with the player choosing
\* rest again and again, every set-up game eventually reaches game_over, and
\* it is over at the latest once T + 1 days have been advanced, for the
\* initial time limit T.
C38_GameEventuallyEnds ==
    phase = "ready" ~> (game_over /\ current_day <= initial_time_limit + 2)

====
